---- MODULE Spec2Model ----
(***************************************************************************)
(* Sweep synchronization between DataServer (plasma_meter/server.py) and  *)
(* DataClient (plasma_meter/client.py) over the shared OPC-UA nodes.      *)
(*                                                                         *)
(* Every `await node.get_value()` / `await node.set_value(..)` is one      *)
(* atomic step; the two coroutines interleave at these steps.  An          *)
(* asyncio.sleep(d) only guarantees that at least d seconds pass, so a     *)
(* sleep puts no upper bound on how long the other side runs: it is merged *)
(* with the node access that follows it.                                   *)
(*                                                                         *)
(* A Python str is a sequence of characters.  The rendering of a number or *)
(* of a timestamp is one character of this alphabet, "," is another.       *)
(***************************************************************************)
EXTENDS Integers, Sequences, FiniteSets, TLC

\* ------------------------------------------------------------------ bounds
MaxRamp == 2        \* longest voltage ramp a client submits
MaxRuns == 2        \* calls of DataClient.start_client, one after the other
MaxAborts == 1      \* calls of DataServer.stop_measurements
MaxSamples == 4     \* longest sample stream a CalculationsSLP object sees
MaxCurrent == 2     \* the currents of such a stream are -1 .. MaxCurrent
MaxCalls == 2       \* calls of calculate_all counted on an unchanged stream
MaxSaves == 2       \* save_to_csv calls that write
MaxStamp == 2       \* the final time stamps of stored sweeps are 0 .. MaxStamp
MaxInstances == 2   \* instances of DataClient, and of Measurement
MaxRows == 2        \* rows loaded or appended into one list

\* ------------------------------------------------------- program constants
shunt_resistor == 200
\* the sweep duration the entry points pass, .5 s, in units of 1/10 s
SweepTime == 5

VARIABLES
    \* the nodes of the server's `sensor` object
    voltage_ramp, voltage_sweep_time, current_filter, sensor_to_use,
    abort_measurements, is_client_data_fully_sent,
    is_measurements_running, is_measurements_finished,
    current_measurements, time_measurements,
    \* DataServer.start_server and the methods it calls
    spc, server_exc, branch,
    measurement_voltage_sweep_time, number_of_measurements,
    slp_current_filter, voltages, vidx,
    calculated_current_measurements, calculated_time_measurements,
    \* DataClient.start_client
    cpc, client_exc, runs,
    selected_voltage_ramp, selected_voltage_sweep_time,
    selected_current_filter, selected_sensor_to_use,
    current_list, time_list, is_client_done,
    \* DataServer.stop_measurements
    apc, aborts,
    \* history: sweeps started (also the clock of the timestamps), samples
    \* published in both lists when abort was set, the lists published when
    \* finished was last set, how often finished was set, and how many of
    \* these the client had before it when it last read finished = True;
    \* the request of the last submission and the sweeps started before it
    sweeps, abort_at, final_current, final_time, finished_sets, acked,
    submitted,
    \* a CalculationsSLP object
    calc_client, calc_voltage, calc_current, calc_gas, calc_magnetic_field,
    calc_time,
    floating_potential, plasma_potential, temperature, temperature_ev,
    density, mean_free_path, debye_length, larmor_radius, calc_exc,
    \* history: calls of calculate_all since the stream last changed
    calc_calls,
    \* the diagnostics task of the entry points: its position, and the final
    \* results it has handed to its sinks
    tpc, handed,
    \* the csv file of save_to_csv, as its rows, and (history) the calls of
    \* save_to_csv that have returned
    csv_file, csv_saves, csv_exc,
    \* the database of a DatabaseManager: the rows its connection has
    \* inserted and not committed, the rows committed, and the exception of
    \* the last insert_calculations
    db_pending, db_rows, db_exc,
    \* objects: the list DataClient.current_list of the class, for each
    \* DataClient the list its attribute current_list names ("class", or its
    \* own list), and the same for the default list of Measurement.__init__;
    \* the result of the last call of CalculationsFactory and (history) its
    \* arguments
    dc_class_list, dc_ref, dc_own, ms_default_list, ms_ref, ms_own,
    fac_result, fac_call

nodes == <<voltage_ramp, voltage_sweep_time, current_filter, sensor_to_use,
           abort_measurements, is_client_data_fully_sent,
           is_measurements_running, is_measurements_finished,
           current_measurements, time_measurements>>
slp_locals == <<measurement_voltage_sweep_time, number_of_measurements,
                slp_current_filter, voltages, vidx,
                calculated_current_measurements,
                calculated_time_measurements>>
srv == <<spc, server_exc, branch, slp_locals>>
cli == <<cpc, client_exc, runs, selected_voltage_ramp,
         selected_voltage_sweep_time, selected_current_filter,
         selected_sensor_to_use, current_list, time_list, is_client_done>>
stp == <<apc, aborts>>
hist == <<sweeps, abort_at, final_current, final_time, finished_sets,
          acked, submitted>>
calc_data == <<calc_client, calc_voltage, calc_current, calc_gas,
               calc_magnetic_field, calc_time>>
calc_result == <<floating_potential, plasma_potential, temperature,
                 temperature_ev, density, mean_free_path, debye_length,
                 larmor_radius>>
task == <<tpc, handed>>
csv == <<csv_file, csv_saves, csv_exc>>
db == <<db_pending, db_rows, db_exc>>
obj == <<dc_class_list, dc_ref, dc_own, ms_default_list, ms_ref, ms_own,
         fac_result, fac_call>>
lib == <<csv, db, obj>>
calc == <<calc_data, calc_result, calc_exc, calc_calls, task, lib>>
vars == <<nodes, srv, cli, stp, hist, calc>>

\* ------------------------------------------------------------ str and float
Comma == ","

\* str(x) of a number: one character
Str(x) == ToString(x)

Numbers == (0 - MaxRamp - 1)..(MaxRamp + 1)

\* float(s): defined when s is the rendering of a number, ValueError otherwise
IsFloat(s) == Len(s) = 1 /\ \E x \in Numbers : Str(x) = s[1]
Float(s) == CHOOSE x \in Numbers : Str(x) = s[1]

\* str(datetime.datetime.now()) during sweep n, and strptime of it
TimeStr(n) == "T" \o ToString(n)
IsTime(s) == Len(s) = 1 /\ \E n \in 0..(MaxRuns + 1) : TimeStr(n) = s[1]
Strptime(s) == CHOOSE n \in 0..(MaxRuns + 1) : TimeStr(n) = s[1]

\* s.split(','): the list of the strings between the commas
RECURSIVE Split(_)
Split(s) ==
    IF \A i \in 1..Len(s) : s[i] # Comma THEN <<s>>
    ELSE LET i == CHOOSE j \in 1..Len(s) :
                      s[j] = Comma /\ \A k \in 1..(j - 1) : s[k] # Comma
         IN <<SubSeq(s, 1, i - 1)>> \o Split(SubSeq(s, i + 1, Len(s)))

\* ','.join(l) for a list l of strings
RECURSIVE Join(_)
Join(l) ==
    IF l = <<>> THEN <<>>
    ELSE IF Len(l) = 1 THEN l[1]
    ELSE l[1] \o <<Comma>> \o Join(Tail(l))

\* s[:-1]
Chop(s) == SubSeq(s, 1, Len(s) - 1)

\* [f(x) for x in l if keep(x)] helpers
RECURSIVE DropEmpty(_)
DropEmpty(l) ==
    IF l = <<>> THEN <<>>
    ELSE IF Head(l) = <<>> THEN DropEmpty(Tail(l))
    ELSE <<Head(l)>> \o DropEmpty(Tail(l))

\* --------------------------------------------------------------- requests
\* the ramps of the entry points are linear (calculate_voltage_ramp): one
\* ramp for every length, its voltages 1, 2, .., n
Ramp(n) == [i \in 1..n |-> i]
Ramps == {Ramp(n) : n \in 0..MaxRamp}
Sensors == {"SLP", "DLP", "HEA", "XYZ"}
Filters == {"None", "SOS"}

\* the arguments of set_measurement_parameters.  The driver reads the ramp
\* and the filter in its SLP branch only, so the other sensor kinds come
\* with one ramp and one filter.
Requests ==
    [ramp : Ramps, sweep_time : {SweepTime}, sensor : {"SLP"},
     filter : Filters]
    \cup [ramp : {Ramp(1)}, sweep_time : {SweepTime},
          sensor : Sensors \ {"SLP"}, filter : {"None"}]

\* ----------------------------------------------------------- float values
\* A float that is a voltage, a current or a density (in units of the
\* constant divisor of __calculate_density) is an integer.  Every other
\* float is one of nan, inf, -inf, 0.0, or a finite non-zero value, which is
\* kept as the operands that determine it: <<kind, a, b, c, d>>.
Zero == <<"zero", 0, 0, 0, 0>>
NaN == <<"nan", 0, 0, 0, 0>>
PosInf == <<"inf", 0, 0, 0, 0>>
NegInf == <<"-inf", 0, 0, 0, 0>>
\* variant: temperature_ev and larmor_radius stay as the class declares them
One_unset == <<"zero", 0, 0, 0, 0>>
MinusOne_unset == <<"zero", 0, 0, 0, 0>>
One == <<"one", 0, 0, 0, 0>>
MinusOne == <<"minus one", 0, 0, 0, 0>>

\* ------------------------------------------------------------------- Init
\* the class attributes of CalculationsSLP
\* no request has been submitted
NoSubmission ==
    [ramp |-> <<>>, sweep_time |-> 0, filter |-> "", sensor |-> "",
     sweeps |-> 0 - 1]

\* nothing stored yet
NoLib ==
    /\ csv_file = <<>>
    /\ csv_saves = 0
    /\ csv_exc = "none"
    /\ db_pending = {}
    /\ db_rows = {}
    /\ db_exc = "none"
    /\ dc_class_list = <<>>
    /\ dc_ref = [i \in 1..MaxInstances |-> "none"]
    /\ dc_own = [i \in 1..MaxInstances |-> <<>>]
    /\ ms_default_list = <<>>
    /\ ms_ref = [i \in 1..MaxInstances |-> "none"]
    /\ ms_own = [i \in 1..MaxInstances |-> <<>>]
    /\ fac_result = "none"
    /\ fac_call = <<"none", "">>

NoCalculations ==
    /\ calc_client = FALSE
    /\ calc_voltage = <<>>
    /\ calc_current = <<>>
    /\ calc_gas = ""
    /\ calc_magnetic_field = ""
    /\ calc_time = <<>>
    /\ floating_potential = 0
    /\ plasma_potential = 0
    /\ temperature = Zero
    /\ temperature_ev = Zero
    /\ density = 0
    /\ mean_free_path = Zero
    /\ debye_length = Zero
    /\ larmor_radius = Zero
    /\ calc_exc = "none"
    /\ calc_calls = 0
    /\ tpc = "none"
    /\ handed = 0
    /\ NoLib

NoLocals ==
    /\ measurement_voltage_sweep_time = 0
    /\ number_of_measurements = 0
    /\ slp_current_filter = ""
    /\ voltages = <<>>
    /\ vidx = 0
    /\ calculated_current_measurements = <<>>
    /\ calculated_time_measurements = <<>>

Init ==
    /\ voltage_ramp = <<>>
    /\ voltage_sweep_time = 0
    /\ current_filter = "None"
    /\ sensor_to_use = ""
    /\ abort_measurements = FALSE
    /\ is_client_data_fully_sent = FALSE
    /\ is_measurements_running = FALSE
    /\ is_measurements_finished = FALSE
    /\ current_measurements = <<>>
    /\ time_measurements = <<>>
    /\ spc = "await_data"
    /\ server_exc = "none"
    /\ branch = "none"
    /\ NoLocals
    /\ cpc = "idle"
    /\ client_exc = "none"
    /\ runs = 0
    /\ selected_voltage_ramp = <<>>
    /\ selected_voltage_sweep_time = 0
    /\ selected_current_filter = "None"
    /\ selected_sensor_to_use = ""
    /\ current_list = <<>>
    /\ time_list = <<>>
    /\ is_client_done = FALSE
    /\ apc = "idle"
    /\ aborts = 0
    /\ sweeps = 0
    /\ abort_at = 0 - 1
    /\ final_current = <<>>
    /\ final_time = <<>>
    /\ finished_sets = 0
    /\ acked = 0
    /\ submitted = NoSubmission
    /\ NoCalculations

\* ------------------------------------------------------------- DataServer
\* variant: the wait loop starts a sweep without looking at the flag
check_client_data_received_always == TRUE

\* DataServer.__check_client_data_received
check_client_data_received == is_client_data_fully_sent

\* the probe response of __run_SLP_measurements, `(voltage * -2.0) /
\* shunt_resistor`, in units of 1/100
Respond(voltage) == (voltage * (0 - 2) * 100) \div shunt_resistor

\* variant: the loop walks the ramp from its far end
LoopVoltage_reversed == voltages[Len(voltages) - vidx]

\* the voltage of the loop's next iteration: `for voltage in voltages`
LoopVoltage == voltages[vidx + 1]

\* variant: the loop never looks at the abort flag
AbortObserved_never == FALSE

\* `if await self.__abort_measurements.get_value(): break`
AbortObserved == abort_measurements

\* an exception leaves start_server: the `async with self.__server` block
\* stops the server and the coroutine ends
ServerRaise(exc) ==
    /\ spc' = "raised"
    /\ server_exc' = exc
    /\ UNCHANGED <<nodes, branch, slp_locals, cli, stp, hist, calc>>

\* start_server: `if await self.__check_client_data_received()`, and the
\* asyncio.sleep(2) before the next look
start_server_poll ==
    /\ spc = "await_data"
    /\ IF check_client_data_received
       THEN /\ spc' = "set_running"
            /\ sweeps' = sweeps + 1
            /\ UNCHANGED <<nodes, server_exc, branch, slp_locals, cli, stp,
                           abort_at, final_current, final_time,
                           finished_sets, acked, submitted, calc>>
       ELSE UNCHANGED vars

\* __run_measurements: is_measurements_running.set_value(True)
run_measurements_set_running ==
    /\ spc = "set_running"
    /\ is_measurements_running' = TRUE
    /\ spc' = "dispatch_SLP"
    /\ UNCHANGED <<voltage_ramp, voltage_sweep_time, current_filter,
                   sensor_to_use, abort_measurements,
                   is_client_data_fully_sent, is_measurements_finished,
                   current_measurements, time_measurements, server_exc,
                   branch, slp_locals, cli, stp, hist, calc>>

\* __run_measurements: the three reads of sensor_to_use
run_measurements_dispatch_SLP ==
    /\ spc = "dispatch_SLP"
    /\ IF sensor_to_use = "SLP"
       THEN spc' = "slp_sweep_time" /\ branch' = "SLP"
       ELSE spc' = "dispatch_DLP" /\ branch' = branch
    /\ UNCHANGED <<nodes, server_exc, slp_locals, cli, stp, hist, calc>>

run_measurements_dispatch_DLP ==
    /\ spc = "dispatch_DLP"
    /\ IF sensor_to_use = "DLP"
       THEN spc' = "clear_running" /\ branch' = "DLP"
       ELSE spc' = "dispatch_HEA" /\ branch' = branch
    /\ UNCHANGED <<nodes, server_exc, slp_locals, cli, stp, hist, calc>>

run_measurements_dispatch_HEA ==
    /\ spc = "dispatch_HEA"
    /\ spc' = "clear_running"
    /\ branch' = IF sensor_to_use = "HEA" THEN "HEA" ELSE "else"
    /\ UNCHANGED <<nodes, server_exc, slp_locals, cli, stp, hist, calc>>

\* __run_SLP_measurements: measurement_voltage_sweep_time
run_SLP_read_sweep_time ==
    /\ spc = "slp_sweep_time"
    /\ measurement_voltage_sweep_time' = voltage_sweep_time
    /\ spc' = "slp_ramp"
    /\ UNCHANGED <<nodes, server_exc, branch, number_of_measurements,
                   slp_current_filter, voltages, vidx,
                   calculated_current_measurements,
                   calculated_time_measurements, cli, stp, hist, calc>>

\* __run_SLP_measurements: measurement_voltage_ramp, number_of_measurements
\* and the division of step_time
run_SLP_read_ramp ==
    /\ spc = "slp_ramp"
    /\ IF Len(voltage_ramp) = 0
       THEN ServerRaise("ZeroDivisionError")
       ELSE /\ number_of_measurements' = Len(voltage_ramp)
            /\ spc' = "slp_filter"
            /\ UNCHANGED <<nodes, server_exc, branch,
                           measurement_voltage_sweep_time, slp_current_filter,
                           voltages, vidx, calculated_current_measurements,
                           calculated_time_measurements, cli, stp, hist, calc>>

\* __run_SLP_measurements: current_filter
run_SLP_read_filter ==
    /\ spc = "slp_filter"
    /\ slp_current_filter' = current_filter
    /\ spc' = "slp_voltages"
    /\ UNCHANGED <<nodes, server_exc, branch,
                   measurement_voltage_sweep_time, number_of_measurements,
                   voltages, vidx, calculated_current_measurements,
                   calculated_time_measurements, cli, stp, hist, calc>>

\* __run_SLP_measurements: voltages, and the choice of the filter branch
run_SLP_read_voltages ==
    /\ spc = "slp_voltages"
    /\ LET tokens == Split(voltage_ramp)
       IN IF \E i \in 1..Len(tokens) : ~IsFloat(tokens[i])
          THEN ServerRaise("ValueError")
          ELSE IF slp_current_filter = "SOS"
          THEN ServerRaise("AttributeError")
          ELSE /\ voltages' = [i \in 1..Len(tokens) |-> Float(tokens[i])]
               /\ spc' = IF slp_current_filter = "None"
                         THEN "slp_abort_check" ELSE "slp_final_current"
               /\ UNCHANGED <<nodes, server_exc, branch,
                              measurement_voltage_sweep_time, number_of_measurements,
                              slp_current_filter, vidx,
                              calculated_current_measurements,
                              calculated_time_measurements, cli, stp, hist, calc>>

\* the loop head of the 'None' branch: the abort check
run_SLP_abort_check ==
    /\ spc = "slp_abort_check"
    /\ spc' = IF AbortObserved THEN "slp_final_current"
              ELSE "slp_publish_current"
    /\ UNCHANGED <<nodes, server_exc, branch, slp_locals, cli, stp, hist, calc>>

\* asyncio.sleep(step_time), the sample, the two joins and
\* current_measurements.set_value
run_SLP_publish_current ==
    /\ spc = "slp_publish_current"
    /\ LET current == Respond(LoopVoltage)
           joined == calculated_current_measurements
                         \o <<Str(current), Comma>>
       IN /\ calculated_current_measurements' = joined
          /\ current_measurements' = Chop(joined)
    /\ calculated_time_measurements' =
           calculated_time_measurements \o <<TimeStr(sweeps), Comma>>
    /\ vidx' = vidx + 1
    /\ spc' = "slp_publish_time"
    /\ UNCHANGED <<voltage_ramp, voltage_sweep_time, current_filter,
                   sensor_to_use, abort_measurements,
                   is_client_data_fully_sent, is_measurements_running,
                   is_measurements_finished, time_measurements, server_exc,
                   branch, measurement_voltage_sweep_time,
                   number_of_measurements, slp_current_filter, voltages,
                   cli, stp, hist, calc>>

\* time_measurements.set_value in the loop, then the next iteration or the
\* end of the loop
run_SLP_publish_time ==
    /\ spc = "slp_publish_time"
    /\ time_measurements' = Chop(calculated_time_measurements)
    /\ spc' = IF vidx = Len(voltages) THEN "slp_final_current"
              ELSE "slp_abort_check"
    /\ UNCHANGED <<voltage_ramp, voltage_sweep_time, current_filter,
                   sensor_to_use, abort_measurements,
                   is_client_data_fully_sent, is_measurements_running,
                   is_measurements_finished, current_measurements,
                   server_exc, branch, slp_locals, cli, stp, hist, calc>>

\* "transmits calculated data"
run_SLP_final_current ==
    /\ spc = "slp_final_current"
    /\ current_measurements' = Chop(calculated_current_measurements)
    /\ spc' = "slp_final_time"
    /\ UNCHANGED <<voltage_ramp, voltage_sweep_time, current_filter,
                   sensor_to_use, abort_measurements,
                   is_client_data_fully_sent, is_measurements_running,
                   is_measurements_finished, time_measurements, server_exc,
                   branch, slp_locals, cli, stp, hist, calc>>

run_SLP_final_time ==
    /\ spc = "slp_final_time"
    /\ time_measurements' = Chop(calculated_time_measurements)
    /\ spc' = "slp_set_finished"
    /\ UNCHANGED <<voltage_ramp, voltage_sweep_time, current_filter,
                   sensor_to_use, abort_measurements,
                   is_client_data_fully_sent, is_measurements_running,
                   is_measurements_finished, current_measurements,
                   server_exc, branch, slp_locals, cli, stp, hist, calc>>

run_SLP_set_finished ==
    /\ spc = "slp_set_finished"
    /\ is_measurements_finished' = TRUE
    /\ final_current' = current_measurements
    /\ final_time' = time_measurements
    /\ finished_sets' = finished_sets + 1
    /\ spc' = "slp_transmit_wait"
    /\ UNCHANGED <<voltage_ramp, voltage_sweep_time, current_filter,
                   sensor_to_use, abort_measurements,
                   is_client_data_fully_sent, is_measurements_running,
                   current_measurements, time_measurements, server_exc,
                   branch, slp_locals, cli, stp, sweeps, abort_at, acked,
                   submitted, calc>>

\* asyncio.sleep(10) and the return of __run_SLP_measurements
run_SLP_transmit_wait ==
    /\ spc = "slp_transmit_wait"
    /\ spc' = "clear_running"
    /\ measurement_voltage_sweep_time' = 0
    /\ number_of_measurements' = 0
    /\ slp_current_filter' = ""
    /\ voltages' = <<>>
    /\ vidx' = 0
    /\ calculated_current_measurements' = <<>>
    /\ calculated_time_measurements' = <<>>
    /\ UNCHANGED <<nodes, server_exc, branch, cli, stp, hist, calc>>

\* __run_measurements: is_measurements_running.set_value(False)
run_measurements_clear_running ==
    /\ spc = "clear_running"
    /\ is_measurements_running' = FALSE
    /\ spc' = "flush_ramp"
    /\ branch' = "none"
    /\ UNCHANGED <<voltage_ramp, voltage_sweep_time, current_filter,
                   sensor_to_use, abort_measurements,
                   is_client_data_fully_sent, is_measurements_finished,
                   current_measurements, time_measurements, server_exc,
                   slp_locals, cli, stp, hist, calc>>

\* __flush_measurement_parameters, one set_value after the other
flush_voltage_ramp ==
    /\ spc = "flush_ramp"
    /\ voltage_ramp' = <<>>
    /\ spc' = "flush_sweep_time"
    /\ UNCHANGED <<voltage_sweep_time, current_filter, sensor_to_use,
                   abort_measurements, is_client_data_fully_sent,
                   is_measurements_running, is_measurements_finished,
                   current_measurements, time_measurements, server_exc,
                   branch, slp_locals, cli, stp, hist, calc>>

flush_voltage_sweep_time ==
    /\ spc = "flush_sweep_time"
    /\ voltage_sweep_time' = 0
    /\ spc' = "flush_sensor"
    /\ UNCHANGED <<voltage_ramp, current_filter, sensor_to_use,
                   abort_measurements, is_client_data_fully_sent,
                   is_measurements_running, is_measurements_finished,
                   current_measurements, time_measurements, server_exc,
                   branch, slp_locals, cli, stp, hist, calc>>

flush_sensor_to_use ==
    /\ spc = "flush_sensor"
    /\ sensor_to_use' = ""
    /\ spc' = "flush_ready"
    /\ UNCHANGED <<voltage_ramp, voltage_sweep_time, current_filter,
                   abort_measurements, is_client_data_fully_sent,
                   is_measurements_running, is_measurements_finished,
                   current_measurements, time_measurements, server_exc,
                   branch, slp_locals, cli, stp, hist, calc>>

flush_is_client_data_fully_sent ==
    /\ spc = "flush_ready"
    /\ is_client_data_fully_sent' = FALSE
    /\ spc' = "flush_finished"
    /\ UNCHANGED <<voltage_ramp, voltage_sweep_time, current_filter,
                   sensor_to_use, abort_measurements,
                   is_measurements_running, is_measurements_finished,
                   current_measurements, time_measurements, server_exc,
                   branch, slp_locals, cli, stp, hist, calc>>

flush_is_measurements_finished ==
    /\ spc = "flush_finished"
    /\ is_measurements_finished' = FALSE
    /\ spc' = "flush_abort"
    /\ UNCHANGED <<voltage_ramp, voltage_sweep_time, current_filter,
                   sensor_to_use, abort_measurements,
                   is_client_data_fully_sent, is_measurements_running,
                   current_measurements, time_measurements, server_exc,
                   branch, slp_locals, cli, stp, hist, calc>>

flush_abort_measurements ==
    /\ spc = "flush_abort"
    /\ abort_measurements' = FALSE
    /\ abort_at' = 0 - 1
    /\ spc' = "await_data"
    /\ UNCHANGED <<voltage_ramp, voltage_sweep_time, current_filter,
                   sensor_to_use, is_client_data_fully_sent,
                   is_measurements_running, is_measurements_finished,
                   current_measurements, time_measurements, server_exc,
                   branch, slp_locals, cli, stp, sweeps, final_current,
                   final_time, finished_sets, acked, submitted, calc>>

Server ==
    \/ start_server_poll
    \/ run_measurements_set_running
    \/ run_measurements_dispatch_SLP
    \/ run_measurements_dispatch_DLP
    \/ run_measurements_dispatch_HEA
    \/ run_SLP_read_sweep_time
    \/ run_SLP_read_ramp
    \/ run_SLP_read_filter
    \/ run_SLP_read_voltages
    \/ run_SLP_abort_check
    \/ run_SLP_publish_current
    \/ run_SLP_publish_time
    \/ run_SLP_final_current
    \/ run_SLP_final_time
    \/ run_SLP_set_finished
    \/ run_SLP_transmit_wait
    \/ run_measurements_clear_running
    \/ flush_voltage_ramp
    \/ flush_voltage_sweep_time
    \/ flush_sensor_to_use
    \/ flush_is_client_data_fully_sent
    \/ flush_is_measurements_finished
    \/ flush_abort_measurements

\* ------------------------------------------------------------- DataClient
\* the server has left `async with self.__server`: every node access of a
\* client fails
ServerDown == spc = "raised"

ClientRaise(exc) ==
    /\ cpc' = "raised"
    /\ client_exc' = exc
    /\ UNCHANGED <<nodes, srv, runs, selected_voltage_ramp,
                   selected_voltage_sweep_time, selected_current_filter,
                   selected_sensor_to_use, current_list, time_list,
                   is_client_done, stp, hist, calc>>

\* ','.join(map(str, self.__selected_voltage_ramp))
RampStr(ramp) == Join([i \in 1..Len(ramp) |-> <<Str(ramp[i])>>])

\* __fix_current_and_time_data_types: the new current_list
fix_current(l) ==
    LET kept == DropEmpty(l) IN [i \in 1..Len(kept) |-> Float(kept[i])]

\* __fix_current_and_time_data_types: the tokens strptime is applied to
fix_time_tokens(l) == l

fix_time(l) ==
    LET kept == fix_time_tokens(l) IN [i \in 1..Len(kept) |-> Strptime(kept[i])]

\* a new DataClient, set_measurement_parameters, and start_client up to the
\* head of its loop; the run before it has returned or raised
start_client(ramp, sweep_time, sensor, filter) ==
    /\ cpc \in {"idle", "raised"}
    /\ runs < MaxRuns
    /\ ~ServerDown
    /\ runs' = runs + 1
    /\ selected_voltage_ramp' = ramp
    /\ selected_voltage_sweep_time' = sweep_time
    /\ selected_sensor_to_use' = sensor
    /\ selected_current_filter' = filter
    /\ current_list' = <<>>
    /\ time_list' = <<>>
    /\ is_client_done' = FALSE
    /\ client_exc' = "none"
    /\ cpc' = "wait_server"
    /\ UNCHANGED <<nodes, srv, stp, hist, calc>>

\* asyncio.sleep(2) and `if not await is_measurements_running.get_value()`
start_client_wait_server ==
    /\ cpc = "wait_server"
    /\ IF ServerDown THEN ClientRaise("ConnectionError")
       ELSE IF ~is_measurements_running
       THEN /\ cpc' = "send_ramp"
            /\ UNCHANGED <<nodes, srv, client_exc, runs, selected_voltage_ramp,
                           selected_voltage_sweep_time, selected_current_filter,
                           selected_sensor_to_use, current_list, time_list,
                           is_client_done, stp, hist, calc>>
       ELSE UNCHANGED vars

\* __send_measurement_parameters_to_server, one set_value after the other
send_voltage_ramp ==
    /\ cpc = "send_ramp"
    /\ IF ServerDown THEN ClientRaise("ConnectionError")
       ELSE /\ voltage_ramp' = RampStr(selected_voltage_ramp)
            /\ cpc' = "send_sweep_time"
            /\ UNCHANGED <<voltage_sweep_time, current_filter, sensor_to_use,
                           abort_measurements, is_client_data_fully_sent,
                           is_measurements_running, is_measurements_finished,
                           current_measurements, time_measurements, srv, client_exc,
                           runs, selected_voltage_ramp, selected_voltage_sweep_time,
                           selected_current_filter, selected_sensor_to_use,
                           current_list, time_list, is_client_done, stp, hist, calc>>

send_voltage_sweep_time ==
    /\ cpc = "send_sweep_time"
    /\ IF ServerDown THEN ClientRaise("ConnectionError")
       ELSE /\ voltage_sweep_time' = selected_voltage_sweep_time
            /\ cpc' = "send_filter"
            /\ UNCHANGED <<voltage_ramp, current_filter, sensor_to_use,
                           abort_measurements, is_client_data_fully_sent,
                           is_measurements_running, is_measurements_finished,
                           current_measurements, time_measurements, srv, client_exc,
                           runs, selected_voltage_ramp, selected_voltage_sweep_time,
                           selected_current_filter, selected_sensor_to_use,
                           current_list, time_list, is_client_done, stp, hist, calc>>

send_current_filter ==
    /\ cpc = "send_filter"
    /\ IF ServerDown THEN ClientRaise("ConnectionError")
       ELSE /\ current_filter' = selected_current_filter
            /\ cpc' = "send_sensor"
            /\ UNCHANGED <<voltage_ramp, voltage_sweep_time, sensor_to_use,
                           abort_measurements, is_client_data_fully_sent,
                           is_measurements_running, is_measurements_finished,
                           current_measurements, time_measurements, srv, client_exc,
                           runs, selected_voltage_ramp, selected_voltage_sweep_time,
                           selected_current_filter, selected_sensor_to_use,
                           current_list, time_list, is_client_done, stp, hist, calc>>

send_sensor_to_use ==
    /\ cpc = "send_sensor"
    /\ IF ServerDown THEN ClientRaise("ConnectionError")
       ELSE /\ sensor_to_use' = selected_sensor_to_use
            /\ cpc' = "send_ready"
            /\ UNCHANGED <<voltage_ramp, voltage_sweep_time, current_filter,
                           abort_measurements, is_client_data_fully_sent,
                           is_measurements_running, is_measurements_finished,
                           current_measurements, time_measurements, srv, client_exc,
                           runs, selected_voltage_ramp, selected_voltage_sweep_time,
                           selected_current_filter, selected_sensor_to_use,
                           current_list, time_list, is_client_done, stp, hist, calc>>

send_is_client_data_fully_sent ==
    /\ cpc = "send_ready"
    /\ IF ServerDown THEN ClientRaise("ConnectionError")
       ELSE /\ is_client_data_fully_sent' = TRUE
            /\ cpc' = "read_current"
            /\ submitted' = [ramp |-> selected_voltage_ramp,
                             sweep_time |-> selected_voltage_sweep_time,
                             filter |-> selected_current_filter,
                             sensor |-> selected_sensor_to_use,
                             sweeps |-> sweeps]
            /\ UNCHANGED <<voltage_ramp, voltage_sweep_time, current_filter,
                           sensor_to_use, abort_measurements,
                           is_measurements_running, is_measurements_finished,
                           current_measurements, time_measurements, srv, client_exc,
                           runs, selected_voltage_ramp, selected_voltage_sweep_time,
                           selected_current_filter, selected_sensor_to_use,
                           current_list, time_list, is_client_done, stp, sweeps,
                           abort_at, final_current, final_time, finished_sets,
                           acked, calc>>

\* self.current_list = (await current_measurements.get_value()).split(',')
ReadCurrent(from, to) ==
    /\ cpc = from
    /\ IF ServerDown THEN ClientRaise("ConnectionError")
       ELSE /\ current_list' = Split(current_measurements)
            /\ cpc' = to
            /\ UNCHANGED <<nodes, srv, client_exc, runs, selected_voltage_ramp,
                           selected_voltage_sweep_time, selected_current_filter,
                           selected_sensor_to_use, time_list, is_client_done, stp,
                           hist, calc>>

\* self.time_list = (await time_measurements.get_value()).split(','), then
\* __fix_current_and_time_data_types, which has no await of its own
ReadTimeAndFix(from, to, done) ==
    /\ cpc = from
    /\ IF ServerDown THEN ClientRaise("ConnectionError")
       ELSE LET raw == Split(time_measurements)
                kept == DropEmpty(current_list)
            IN IF \E i \in 1..Len(kept) : ~IsFloat(kept[i])
               THEN /\ time_list' = raw
                    /\ cpc' = "raised"
                    /\ client_exc' = "ValueError"
                    /\ UNCHANGED <<nodes, srv, runs, selected_voltage_ramp,
                                   selected_voltage_sweep_time, selected_current_filter,
                                   selected_sensor_to_use, current_list, is_client_done,
                                   stp, hist, calc>>
               ELSE IF \E i \in 1..Len(fix_time_tokens(raw)) :
                           ~IsTime(fix_time_tokens(raw)[i])
               THEN /\ current_list' = fix_current(current_list)
                    /\ time_list' = raw
                    /\ cpc' = "raised"
                    /\ client_exc' = "ValueError"
                    /\ UNCHANGED <<nodes, srv, runs, selected_voltage_ramp,
                                   selected_voltage_sweep_time, selected_current_filter,
                                   selected_sensor_to_use, is_client_done, stp, hist, calc>>
               ELSE /\ current_list' = fix_current(current_list)
                    /\ time_list' = fix_time(raw)
                    /\ cpc' = to
                    /\ is_client_done' = done
                    /\ client_exc' = client_exc
                    /\ UNCHANGED <<nodes, srv, runs, selected_voltage_ramp,
                                   selected_voltage_sweep_time, selected_current_filter,
                                   selected_sensor_to_use, stp, hist, calc>>

\* the poll tick of start_client's inner loop
tick_read_current == ReadCurrent("read_current", "read_time")

tick_read_time == ReadTimeAndFix("read_time", "read_finished", FALSE)

\* `if await is_measurements_finished.get_value()`, else asyncio.sleep(2)
tick_read_finished ==
    /\ cpc = "read_finished"
    /\ IF ServerDown THEN ClientRaise("ConnectionError")
       ELSE /\ cpc' = IF is_measurements_finished THEN "final_current"
                      ELSE "read_current"
            /\ acked' = IF is_measurements_finished THEN finished_sets
                        ELSE acked
            /\ UNCHANGED <<nodes, srv, client_exc, runs, selected_voltage_ramp,
                           selected_voltage_sweep_time, selected_current_filter,
                           selected_sensor_to_use, current_list, time_list,
                           is_client_done, stp, sweeps, abort_at,
                           final_current, final_time, finished_sets,
                           submitted, calc>>

\* the last decode, `self.__is_client_done = True` and the return
final_read_current == ReadCurrent("final_current", "final_time")

final_read_time == ReadTimeAndFix("final_time", "idle", TRUE)

Client ==
    \/ \E r \in Requests :
          start_client(r.ramp, r.sweep_time, r.sensor, r.filter)
    \/ start_client_wait_server
    \/ send_voltage_ramp
    \/ send_voltage_sweep_time
    \/ send_current_filter
    \/ send_sensor_to_use
    \/ send_is_client_data_fully_sent
    \/ tick_read_current
    \/ tick_read_time
    \/ tick_read_finished
    \/ final_read_current
    \/ final_read_time

\* ------------------------------------------- DataServer.stop_measurements
\* `if await self.__is_measurements_running.get_value()`
stop_measurements_read_running ==
    /\ apc = "idle"
    /\ aborts < MaxAborts
    /\ ~ServerDown
    /\ aborts' = aborts + 1
    /\ apc' = IF is_measurements_running THEN "set_abort" ELSE "idle"
    /\ UNCHANGED <<nodes, srv, cli, hist, calc>>

\* `await self.__abort_measurements.set_value(True)`
stop_measurements_set_abort ==
    /\ apc = "set_abort"
    /\ abort_measurements' = TRUE
    /\ abort_at' = IF spc = "slp_publish_time" THEN vidx - 1 ELSE vidx
    /\ apc' = "idle"
    /\ UNCHANGED <<voltage_ramp, voltage_sweep_time, current_filter,
                   sensor_to_use, is_client_data_fully_sent,
                   is_measurements_running, is_measurements_finished,
                   current_measurements, time_measurements, srv, cli,
                   aborts, sweeps, final_current, final_time,
                   finished_sets, acked, submitted, calc>>

Stop ==
    \/ stop_measurements_read_running
    \/ stop_measurements_set_abort

\* -------------------------------------------------------- CalculationsSLP
\* The streams a CalculationsSLP object works on: a linear voltage ramp, as
\* the entry points build it, and one current of any sign per sample (the
\* rows of load_csv_voltage_current, the readings of a probe).  The voltage
\* list is never shorter than the current list.
CalcStarts == {0, 1}
CalcRamp(start, n) == [i \in 1..n |-> start + i - 1]
CalcRamps == {CalcRamp(start, n) : start \in CalcStarts, n \in 0..MaxSamples}
Currents == (0 - 1)..MaxCurrent
Gases == {"Air", "air"}
MagneticFields == {"Cusp", "None"}

\* has_voltage_and_current_lists
has_voltage_and_current_lists ==
    Len(calc_voltage) > 2 /\ Len(calc_current) > 2

\* variant: np.argwhere(current < 0)[0], the first index
LastNegative_first(C) ==
    IF \E i \in 1..Len(C) : C[i] < 0
    THEN CHOOSE i \in 1..Len(C) :
             C[i] < 0 /\ \A j \in 1..(i - 1) : C[j] >= 0
    ELSE 0

\* np.argwhere(current < 0)[-1]: the last index of a negative current, 0 if
\* there is none
LastNegative(C) ==
    IF \E i \in 1..Len(C) : C[i] < 0
    THEN CHOOSE i \in 1..Len(C) :
             C[i] < 0 /\ \A j \in (i + 1)..Len(C) : C[j] >= 0
    ELSE 0

\* __calculate_floating_potential: IndexError of get_voltage_list()[index],
\* and the value it stores
FloatingRaises(V, C) == LastNegative(C) > Len(V)
FloatingPotential(V, C, old) ==
    IF LastNegative(C) = 0 THEN old ELSE V[LastNegative(C)]

\* __get_current_voltage_derivative:
\* np.diff(current) / np.diff(voltage[0:len(current)])
Derivative(V, C) ==
    [i \in 1..(Len(C) - 1) |-> (C[i + 1] - C[i]) \div (V[i + 1] - V[i])]

\* np.max and np.min of a non-empty array
MaxOf(d) == CHOOSE x \in {d[i] : i \in 1..Len(d)} :
                \A i \in 1..Len(d) : d[i] <= x
MinOf(d) == CHOOSE x \in {d[i] : i \in 1..Len(d)} :
                \A i \in 1..Len(d) : d[i] >= x

\* __calculate_plasma_potential.  np.max of an empty derivative raises
\* ValueError.  The derivative is divided by its maximum M: for M > 0 the
\* quotient is largest where the derivative is M, for M < 0 where the
\* derivative is smallest, and for M = 0 the quotient 0/0 is nan, no entry
\* equals the maximum nan, and `np.argwhere(..)[0][0]` raises IndexError.
PlasmaRaises(V, C) ==
    IF Len(Derivative(V, C)) = 0 THEN "ValueError"
    ELSE IF MaxOf(Derivative(V, C)) = 0 THEN "IndexError"
    ELSE "none"

max_derivative_index(V, C) ==
    LET d == Derivative(V, C)
        target == IF MaxOf(d) > 0 THEN MaxOf(d) ELSE MinOf(d)
    IN CHOOSE i \in 1..Len(d) :
           d[i] = target /\ \A j \in 1..(i - 1) : d[j] # target

PlasmaPotential(V, C) == V[max_derivative_index(V, C)]

\* int((len(l) - 1) / 2), as an index from 1
MiddleIndex(l) == (Len(l) - 1) \div 2 + 1

Abs(x) == IF x < 0 THEN 0 - x ELSE x

\* __calculate_temperatures: np.log(|last|) - np.log(middle), by its kind
LogDifference(last, middle) ==
    IF middle < 0 THEN "nan"
    ELSE IF middle = 0 THEN (IF last = 0 THEN "nan" ELSE "inf")
    ELSE IF last = 0 THEN "-inf"
    ELSE IF last = middle THEN "zero"
    ELSE IF last > middle THEN "positive"
    ELSE "negative"

\* slope = difference / (plasma_potential - middle_voltage), numpy division
Slope(difference, D) ==
    IF difference = "nan" THEN "nan"
    ELSE IF difference = "zero" THEN (IF D = 0 THEN "nan"
                                      ELSE IF D > 0 THEN "zero" ELSE "-zero")
    ELSE IF difference \in {"inf", "positive"}
    THEN (IF D = 0 THEN "inf"
          ELSE IF difference = "inf" THEN (IF D > 0 THEN "inf" ELSE "-inf")
          ELSE "finite")
    ELSE (IF D = 0 THEN "-inf"
          ELSE IF difference = "-inf" THEN (IF D > 0 THEN "-inf" ELSE "inf")
          ELSE "finite")

\* variant: the temperature of the plasma potential stored before the call
Temperature_stale(V, C, pp) ==
    LET last == Abs(C[Len(C)])
        middle == C[MiddleIndex(C)]
        D == plasma_potential - V[MiddleIndex(V)]
        slope == Slope(LogDifference(last, middle), D)
    IN IF slope = "nan" THEN NaN
       ELSE IF slope \in {"inf", "-inf"} THEN Zero
       ELSE IF slope = "zero" THEN NegInf
       ELSE IF slope = "-zero" THEN PosInf
       ELSE <<"finite", D, last, middle, 0>>

\* temperature = -1 * math.e / slope
Temperature(V, C, pp) ==
    LET last == Abs(C[Len(C)])
        middle == C[MiddleIndex(C)]
        D == pp - V[MiddleIndex(V)]
        slope == Slope(LogDifference(last, middle), D)
    IN IF slope = "nan" THEN NaN
       ELSE IF slope \in {"inf", "-inf"} THEN Zero
       ELSE IF slope = "zero" THEN NegInf
       ELSE IF slope = "-zero" THEN PosInf
       ELSE <<"finite", D, last, middle, 0>>

\* __calculate_density, in units of its constant divisor
Density(V, C) == 0 - C[max_derivative_index(V, C)]

\* variant: the gas label compared without regard to case
MeanFreePath_caseless(gas, dens) ==
    <<"finite", (IF gas \in {"air", "Air"} THEN 18 ELSE 180) * dens, 0, 0, 0>>

\* __calculate_mean_free_path: 3.4e18 * (1 / (impedance * density))
MeanFreePath(gas, dens) ==
    <<"finite", (IF gas = "air" THEN 18 ELSE 180) * dens, 0, 0, 0>>

\* __calculate_debye_length: math.sqrt(abs(eps0 * temperature / (density * e^2)))
DebyeLength(t, dens) ==
    IF t = NaN THEN NaN
    ELSE IF t \in {PosInf, NegInf} THEN PosInf
    ELSE IF t = Zero THEN Zero
    ELSE <<"finite", t[2], t[3], t[4], Abs(dens)>>

\* the fields of the object after a call
SetCalculations(V, C, fp, pp, t, tev, dens, mfp, deb, lar, exc) ==
    /\ calc_voltage' = V
    /\ calc_current' = C
    /\ calc_time' = IF calc_client THEN time_list ELSE calc_time
    /\ floating_potential' = fp
    /\ plasma_potential' = pp
    /\ temperature' = t
    /\ temperature_ev' = tev
    /\ density' = dens
    /\ mean_free_path' = mfp
    /\ debye_length' = deb
    /\ larmor_radius' = lar
    /\ calc_exc' = exc
    /\ calc_calls' = IF calc_calls < MaxCalls THEN calc_calls + 1
                     ELSE calc_calls
    /\ UNCHANGED <<nodes, srv, cli, stp, hist, calc_client, calc_gas,
                   calc_magnetic_field>>

\* calculate_all, the method: its caller says what else changes.  An
\* exception leaves the call with the fields stored so far.  The conditional
\* recomputations inside __calculate_temperatures and
\* __calculate_mean_free_path repeat a computation calculate_all has just
\* done on the same lists.
CalculateAll ==
    IF ~calc_client /\ ~has_voltage_and_current_lists
    THEN SetCalculations(calc_voltage, calc_current, floating_potential,
                         plasma_potential, temperature, temperature_ev,
                         density, mean_free_path, debye_length,
                         larmor_radius, "ValueError")
    ELSE LET V == IF calc_client THEN selected_voltage_ramp ELSE calc_voltage
             C == IF calc_client THEN current_list ELSE calc_current
             fp == FloatingPotential(V, C, floating_potential)
         IN IF FloatingRaises(V, C)
            THEN SetCalculations(V, C, floating_potential, plasma_potential,
                                 temperature, temperature_ev, density,
                                 mean_free_path, debye_length, larmor_radius,
                                 "IndexError")
            ELSE IF PlasmaRaises(V, C) # "none"
            THEN SetCalculations(V, C, fp, plasma_potential, temperature,
                                 temperature_ev, density, mean_free_path,
                                 debye_length, larmor_radius,
                                 PlasmaRaises(V, C))
            ELSE LET pp == PlasmaPotential(V, C)
                     t == Temperature(V, C, pp)
                     dens == Density(V, C)
                 IN IF dens = 0
                    THEN SetCalculations(V, C, fp, pp, t, One, dens,
                                         mean_free_path, debye_length,
                                         larmor_radius, "ZeroDivisionError")
                    ELSE SetCalculations(V, C, fp, pp, t, One, dens,
                                         MeanFreePath(calc_gas, dens),
                                         DebyeLength(t, dens), MinusOne,
                                         "none")

\* calculate_all called on its own, outside the diagnostics task
calculate_all ==
    /\ CalculateAll
    /\ UNCHANGED <<task, lib>>

\* save_to_csv: `fields`, and `rows` as csv.writer writes them
CsvHeader ==
    <<"DateTime", "Density", "Temperature", "Temperature ev",
      "Mean Free Path", "Debye Length", "Larmor Radius", "Plasma Potential",
      "Floating Potential">>
CsvRow(T, r) ==
    <<TimeStr(T[1]), r[5], r[3], r[4], r[6], r[7], r[8], r[2], r[1]>>

\* self.__time[0]: __time is None in an object without client, and the copy
\* of the client's time list in a linked one
SaveRaises(linked, T) ==
    IF ~linked THEN "TypeError"
    ELSE IF Len(T) = 0 THEN "IndexError"
    ELSE "none"

\* variant: the header goes before every row
CsvEmpty_always(file) == TRUE

\* `file.tell() == 0` of a file opened to append
CsvEmpty(file) == Len(file) = 0

\* the file after `with open(filename, 'a')`
WriteRows(file, row) ==
    IF CsvEmpty(file) THEN file \o <<CsvHeader, row>>
    ELSE Append(file, row)

\* save_to_csv on the file of the model
save_to_csv ==
    /\ csv_saves < MaxSaves
    /\ csv_exc' = SaveRaises(calc_client, calc_time)
    /\ IF csv_exc' = "none"
       THEN /\ csv_file' = WriteRows(csv_file, CsvRow(calc_time, calc_result))
            /\ csv_saves' = csv_saves + 1
       ELSE UNCHANGED <<csv_file, csv_saves>>
    /\ UNCHANGED <<nodes, srv, cli, stp, hist, calc_data, calc_result,
                   calc_exc, calc_calls, task, db, obj>>

\* load_csv_voltage_current, for a file of one row
load_csv_voltage_current(v, c) ==
    /\ ~calc_client
    /\ Len(calc_voltage) < MaxSamples
    /\ calc_voltage' = Append(calc_voltage, v)
    /\ calc_current' = Append(calc_current, c)
    /\ calc_calls' = 0
    /\ UNCHANGED <<nodes, srv, cli, stp, hist, calc_client, calc_gas,
                   calc_magnetic_field, calc_time, calc_result, calc_exc,
                   task, lib>>

\* the client the object is linked to decodes one more sample and its time
client_sample(c) ==
    /\ calc_client
    /\ ~is_client_done
    /\ Len(current_list) < Len(selected_voltage_ramp)
    /\ current_list' = Append(current_list, c)
    /\ time_list' = Append(time_list, sweeps)
    /\ calc_calls' = 0
    /\ UNCHANGED <<nodes, srv, cpc, client_exc, runs, selected_voltage_ramp,
                   selected_voltage_sweep_time, selected_current_filter,
                   selected_sensor_to_use, is_client_done, stp,
                   hist, calc_data, calc_result, calc_exc, task, lib>>

\* CalculationsSLP(client) for a client that has its request, and
\* CalculationsSLP() with the start voltage of the rows it will load
CalcObjects ==
    /\ voltage_ramp = <<>>
    /\ voltage_sweep_time = 0
    /\ current_filter = "None"
    /\ sensor_to_use = ""
    /\ abort_measurements = FALSE
    /\ is_client_data_fully_sent = FALSE
    /\ is_measurements_running = FALSE
    /\ is_measurements_finished = FALSE
    /\ current_measurements = <<>>
    /\ time_measurements = <<>>
    /\ spc = "await_data"
    /\ server_exc = "none"
    /\ branch = "none"
    /\ NoLocals
    /\ cpc = "idle"
    /\ client_exc = "none"
    /\ runs = 0
    /\ selected_voltage_sweep_time = SweepTime
    /\ selected_current_filter = "None"
    /\ selected_sensor_to_use = "SLP"
    /\ current_list = <<>>
    /\ time_list = <<>>
    /\ is_client_done = FALSE
    /\ apc = "idle"
    /\ aborts = 0
    /\ sweeps = 0
    /\ abort_at = 0 - 1
    /\ final_current = <<>>
    /\ final_time = <<>>
    /\ finished_sets = 0
    /\ acked = 0
    /\ submitted = NoSubmission
    /\ calc_client \in BOOLEAN
    /\ IF calc_client
       THEN /\ selected_voltage_ramp \in CalcRamps
            /\ calc_voltage = selected_voltage_ramp
            /\ calc_gas \in Gases
            /\ calc_magnetic_field \in MagneticFields
       ELSE /\ selected_voltage_ramp = <<>>
            /\ calc_voltage = <<>>
            /\ calc_gas = ""
            /\ calc_magnetic_field = ""
    /\ calc_current = <<>>
    /\ calc_time = <<>>
    /\ floating_potential = 0
    /\ plasma_potential = 0
    /\ temperature = Zero
    /\ temperature_ev = Zero
    /\ density = 0
    /\ mean_free_path = Zero
    /\ debye_length = Zero
    /\ larmor_radius = Zero
    /\ calc_exc = "none"
    /\ calc_calls = 0
    /\ handed = 0
    /\ NoLib

CalcInit ==
    /\ CalcObjects
    /\ tpc = "none"

CalcNext ==
    \/ calculate_all
    \/ \E c \in Currents :
          load_csv_voltage_current(
              IF calc_voltage = <<>> THEN 0
              ELSE calc_voltage[Len(calc_voltage)] + 1, c)
    \/ \E c \in Currents : client_sample(c)

CalcSpec == CalcInit /\ [][CalcNext]_vars

\* ---------------------------------------------------------------- CsvSpec
\* The object of CalcSpec, saved to one csv file that starts empty.
CsvNext ==
    \/ CalcNext
    \/ save_to_csv

CsvSpec == CalcInit /\ [][CsvNext]_vars

\* -------------------------------------------------------------- StoreSpec
\* DatabaseManager.  A row is its table and its id; the id is the uuid5 of
\* the time of the last sample, one id for one time.  A statement the server
\* rejects raises out of cursor.execute.  The connection is opened without
\* autocommit, so a row inserted is pending until commit().
Stamps == 0..MaxStamp
Failures == {"none", "measurements", "slp_measurements"}

SummaryRow(id) == <<"measurements", id>>
DetailRow(id) == <<"slp_measurements", id>>

\* __insert_calculations_SLP on a connection with the rows `pending`: two
\* execute, then commit
InsertSLP(id, pending, fails) ==
    IF fails = "measurements"
    THEN /\ db_exc' = "DatabaseError"
         /\ UNCHANGED <<db_pending, db_rows>>
    ELSE IF fails = "slp_measurements"
    THEN /\ db_exc' = "DatabaseError"
         /\ db_pending' = pending \cup {SummaryRow(id)}
         /\ UNCHANGED db_rows
    ELSE /\ db_exc' = "none"
         /\ db_pending' = {}
         /\ db_rows' = db_rows \cup pending
                          \cup {SummaryRow(id), DetailRow(id)}

\* insert_calculations of an SLP object whose last time is `id`
insert_calculations(id, fails) ==
    /\ InsertSLP(id, db_pending, fails)
    /\ UNCHANGED <<nodes, srv, cli, stp, hist, calc_data, calc_result,
                   calc_exc, calc_calls, task, csv, obj>>

\* DatabaseManager(): a new connection; the server rolls back what the
\* connection before it left pending
DatabaseManager ==
    /\ db_pending # {}
    /\ db_pending' = {}
    /\ db_exc' = "none"
    /\ UNCHANGED <<nodes, srv, cli, stp, hist, calc_data, calc_result,
                   calc_exc, calc_calls, task, csv, db_rows, obj>>

StoreNext ==
    \/ \E id \in Stamps, fails \in Failures : insert_calculations(id, fails)
    \/ DatabaseManager

StoreSpec == Init /\ [][StoreNext]_vars

\* ------------------------------------------------------------- ObjectSpec
\* Where the lists of the objects live, and what the factory makes.  An
\* attribute read on an instance that has not assigned it is the attribute
\* of the class; a default argument is evaluated once, when the function is
\* defined.
Instances == 1..MaxInstances
Rows == {0, 1}
SensorStrings == {"<None>", "SLP", "DLP", "HEA", "XYZ", "slp"}
FactoryEntries == {"create_calculations", "create_calculations_str"}

ObjFrame ==
    UNCHANGED <<nodes, srv, cli, stp, hist, calc_data, calc_result, calc_exc,
                calc_calls, task, csv, db>>

\* self.current_list of instance i, and the default-built Measurement's list
ClientList(i) == IF dc_ref[i] = "class" THEN dc_class_list ELSE dc_own[i]
MeasurementList(i) ==
    IF ms_ref[i] = "default" THEN ms_default_list ELSE ms_own[i]

\* DataClient(): __init__ assigns none of the three lists
DataClient_init(i) ==
    /\ dc_ref[i] = "none"
    /\ dc_ref' = [dc_ref EXCEPT ![i] = "class"]
    /\ UNCHANGED <<dc_class_list, dc_own, ms_default_list, ms_ref, ms_own,
                   fac_result, fac_call>>
    /\ ObjFrame

\* load_measurements_csv, for a file of one row: self.current_list.append
load_measurements_csv(i, row) ==
    /\ dc_ref[i] # "none"
    /\ Len(ClientList(i)) < MaxRows
    /\ IF dc_ref[i] = "class"
       THEN /\ dc_class_list' = Append(dc_class_list, row)
            /\ dc_own' = dc_own
       ELSE /\ dc_own' = [dc_own EXCEPT ![i] = Append(dc_own[i], row)]
            /\ dc_class_list' = dc_class_list
    /\ UNCHANGED <<dc_ref, ms_default_list, ms_ref, ms_own, fac_result,
                   fac_call>>
    /\ ObjFrame

\* start_client: `self.current_list = ...` gives the instance a list of its
\* own
start_client_assign(i) ==
    /\ dc_ref[i] = "class"
    /\ dc_ref' = [dc_ref EXCEPT ![i] = "own"]
    /\ dc_own' = [dc_own EXCEPT ![i] = <<>>]
    /\ UNCHANGED <<dc_class_list, ms_default_list, ms_ref, ms_own,
                   fac_result, fac_call>>
    /\ ObjFrame

\* Measurement() and Measurement([]): self.__sensor_data_list is the
\* default list of __init__, or the list of the caller
Measurement_init(i, default) ==
    /\ ms_ref[i] = "none"
    /\ ms_ref' = [ms_ref EXCEPT ![i] = IF default THEN "default" ELSE "own"]
    /\ UNCHANGED <<dc_class_list, dc_ref, dc_own, ms_default_list, ms_own,
                   fac_result, fac_call>>
    /\ ObjFrame

\* Measurement.append(sensor_data), the second definition of append
Measurement_append(i, row) ==
    /\ ms_ref[i] # "none"
    /\ Len(MeasurementList(i)) < MaxRows
    /\ IF ms_ref[i] = "default"
       THEN /\ ms_default_list' = Append(ms_default_list, row)
            /\ ms_own' = ms_own
       ELSE /\ ms_own' = [ms_own EXCEPT ![i] = Append(ms_own[i], row)]
            /\ ms_default_list' = ms_default_list
    /\ UNCHANGED <<dc_class_list, dc_ref, dc_own, ms_ref, fac_result,
                   fac_call>>
    /\ ObjFrame

\* what the factory returns or raises.  CalculationsDLP and CalculationsHEA
\* have a required parameter `client`, which create_calculations_str does
\* not pass.
FactoryResult(entry, sensor) ==
    IF sensor = "<None>" THEN "ValueError"
    ELSE IF sensor = "SLP" THEN "CalculationsSLP"
    ELSE IF sensor \in {"DLP", "HEA"}
    THEN (IF entry = "create_calculations" THEN "Calculations" \o sensor
          ELSE "TypeError")
    ELSE "ValueError"

\* CalculationsFactory.create_calculations (for a client with that sensor)
\* and CalculationsFactory.create_calculations_str
create(entry, sensor) ==
    /\ fac_result' = FactoryResult(entry, sensor)
    /\ fac_call' = <<entry, sensor>>
    /\ UNCHANGED <<dc_class_list, dc_ref, dc_own, ms_default_list, ms_ref,
                   ms_own>>
    /\ ObjFrame

ObjectNext ==
    \/ \E i \in Instances : DataClient_init(i)
    \/ \E i \in Instances, row \in Rows : load_measurements_csv(i, row)
    \/ \E i \in Instances : start_client_assign(i)
    \/ \E i \in Instances, default \in BOOLEAN : Measurement_init(i, default)
    \/ \E i \in Instances, row \in Rows : Measurement_append(i, row)
    \/ \E entry \in FactoryEntries, sensor \in SensorStrings :
          create(entry, sensor)

ObjectSpec == Init /\ [][ObjectNext]_vars

\* --------------------------------------------------------------- TaskSpec
\* The diagnostics task the entry points start next to the client:
\* calculate_and_store_sensor_variables of run_example.py and calculate of
\* test.py.  The task runs between its awaits without interruption, so each
\* action below is one such stretch.  The client is the one of CalcSpec,
\* which decodes one sample after another, and which here also ends its run.
\* The object the task creates after its wait is linked to the client and
\* every calculate_all copies the client's lists again, so the object is
\* the linked one of CalcObjects.  The sinks of the final result (the csv
\* file, the signal, the database) are taken to accept it.
MinSamples == 4

\* the client reads `finished` and ends its run, after it has decoded the
\* lists of that tick (empty lists make the decoding raise instead)
client_done ==
    /\ calc_client
    /\ ~is_client_done
    /\ current_list # <<>>
    /\ is_client_done' = TRUE
    /\ UNCHANGED <<nodes, srv, cpc, client_exc, runs, selected_voltage_ramp,
                   selected_voltage_sweep_time, selected_current_filter,
                   selected_sensor_to_use, current_list, time_list, stp,
                   hist, calc>>

\* `while len(client.get_current_list()) < 4: await asyncio.sleep(1)` is
\* over, or the task comes back from the sleep of its loop
TaskAwake ==
    \/ tpc = "wait_samples" /\ Len(current_list) >= MinSamples
    \/ tpc = "loop"

\* one round of `while not client.is_client_done()`; an exception of
\* calculate_all ends the task
task_loop ==
    /\ TaskAwake
    /\ ~is_client_done
    /\ CalculateAll
    /\ tpc' = IF calc_exc' = "none" THEN "loop" ELSE "raised"
    /\ handed' = handed
    /\ UNCHANGED lib

\* the final calculation, and the result handed to save_to_csv, send_signal
\* and insert_calculations
task_final ==
    /\ TaskAwake
    /\ is_client_done
    /\ CalculateAll
    /\ IF calc_exc' # "none"
       THEN /\ tpc' = "raised"
            /\ UNCHANGED <<handed, lib>>
       ELSE /\ csv_exc' = SaveRaises(calc_client, calc_time')
            /\ IF csv_exc' = "none"
               THEN /\ csv_file' = WriteRows(csv_file,
                                             CsvRow(calc_time', calc_result'))
                    /\ csv_saves' = IF csv_saves < MaxSaves
                                    THEN csv_saves + 1 ELSE csv_saves
                    /\ InsertSLP(calc_time'[Len(calc_time')], {}, "none")
                    /\ tpc' = "done"
                    /\ handed' = handed + 1
                    /\ UNCHANGED obj
               ELSE /\ tpc' = "raised"
                    /\ UNCHANGED <<csv_file, csv_saves, handed, db, obj>>

\* the sweep of an empty ramp never finishes, so the ramp has a voltage
TaskInit ==
    /\ CalcObjects
    /\ calc_client
    /\ selected_voltage_ramp # <<>>
    /\ tpc = "wait_samples"

TaskNext ==
    \/ \E c \in Currents : client_sample(c)
    \/ client_done
    \/ task_loop
    \/ task_final

\* the event loop runs the task again after each of its sleeps
TaskSpec ==
    /\ TaskInit
    /\ [][TaskNext]_vars
    /\ WF_vars(task_loop \/ task_final)

\* ------------------------------------------------------------------- Spec
Next == Server \/ Client \/ Stop

Spec == Init /\ [][Next]_vars

\* ----------------------------------------------------------------- claims
\* the samples a wire list carries: its non-empty tokens
Samples(s) == DropEmpty(Split(s))

\* the states of __run_SLP_measurements from the loop head to the return
SlpSweepStates ==
    {"slp_abort_check", "slp_publish_current", "slp_publish_time",
     "slp_final_current", "slp_final_time", "slp_set_finished",
     "slp_transmit_wait"}

\* the states between running.set_value(True) and running.set_value(False)
SweepStates ==
    {"dispatch_SLP", "dispatch_DLP", "dispatch_HEA", "slp_sweep_time",
     "slp_ramp", "slp_filter", "slp_voltages", "clear_running"}
    \cup SlpSweepStates

\* the client holds decoded lists: a tick has been decoded, or the run is done
ClientExposesTick ==
    \/ cpc \in {"read_finished", "final_current"}
    \/ cpc = "idle" /\ is_client_done

\* C1: running and finished are never both true, so that exactly one of idle
\* (both false), running and finished holds in every reachable state.
C1_ExactlyOneOfIdleRunningFinished ==
    ~(is_measurements_running /\ is_measurements_finished)

\* C2: whenever the client exposes a decoded tick, its current list and its
\* time list have the same length.
C2_ExposedListsSameLength ==
    ClientExposesTick => Len(current_list) = Len(time_list)

\* C3: in a sweep the driver has appended one sample per ramp index, in ramp
\* order: after vidx steps the published current list is the probe response
\* to voltages[1..vidx], nothing skipped and nothing reordered.
C3_SamplesFollowRampOrder ==
    spc \in SlpSweepStates =>
        LET appended ==
                fix_current(Split(Chop(calculated_current_measurements)))
            published == fix_current(Split(current_measurements))
        IN /\ vidx <= Len(voltages)
           /\ Len(appended) = vidx
           /\ \A k \in 1..vidx : appended[k] = Respond(voltages[k])
           /\ (vidx > 0 \/ spc \in {"slp_final_time", "slp_set_finished",
                                    "slp_transmit_wait"})
                  => published = appended

\* C3 witness: a sweep has published the samples of two ramp voltages.
C3_Witness ==
    /\ spc = "slp_final_current"
    /\ vidx = 2
    /\ Len(Samples(current_measurements)) = 2

\* C4: when abort was raised with k samples published in both lists, the
\* sweep ends with finished = true and final lists of at most k + 1 samples.
C4_AbortTruncation ==
    (spc = "slp_transmit_wait" /\ abort_at >= 0) =>
        /\ is_measurements_finished
        /\ Len(Samples(current_measurements)) <= abort_at + 1
        /\ Len(Samples(time_measurements)) <= abort_at + 1

\* C4 witness: abort was raised before the first sample, one further sample
\* was appended, and the sweep of a two-voltage ramp ended there.
C4_Witness ==
    /\ spc = "slp_transmit_wait"
    /\ abort_at = 0
    /\ Len(voltages) = 2
    /\ Len(Samples(current_measurements)) = 1

\* C5: when __run_measurements ends for a request of sensor kind SLP, DLP or
\* HEA, finished has been set (nothing sets it later for that request).
C5_ValidSensorSweepSetsFinished ==
    (spc = "clear_running" /\ branch \in {"SLP", "DLP", "HEA"})
        => is_measurements_finished

\* C6: a run of start_client with a valid SLP request, filter None, against
\* a live driver never ends without is_client_done.
C6_ClientRunEndsDone ==
    (/\ runs > 0
     /\ cpc \in {"idle", "raised"}
     /\ selected_sensor_to_use = "SLP"
     /\ selected_current_filter = "None"
     /\ Len(selected_voltage_ramp) > 0
     /\ ~ServerDown)
        => is_client_done

\* C7: at the step that sets is_client_done the client holds the complete
\* lists the driver had published when it last set finished.
C7_DoneHoldsFinalLists ==
    [][(~is_client_done /\ is_client_done') =>
          /\ current_list' = fix_current(Split(final_current))
          /\ time_list' = fix_time(Split(final_time))]_vars

\* C8: while a sweep runs the two lists never get shorter, they get longer
\* only while running is true, and once finished is true they do not change.
C8_ListsOnlyGrowThenFreeze ==
    [][/\ (is_measurements_running /\ is_measurements_running') =>
              /\ Len(Samples(current_measurements'))
                     >= Len(Samples(current_measurements))
              /\ Len(Samples(time_measurements'))
                     >= Len(Samples(time_measurements))
       /\ (Len(Samples(current_measurements'))
               > Len(Samples(current_measurements))
           \/ Len(Samples(time_measurements'))
               > Len(Samples(time_measurements)))
              => is_measurements_running
       /\ is_measurements_finished =>
              /\ current_measurements' = current_measurements
              /\ time_measurements' = time_measurements]_vars

\* C9: the driver looks for a request only while running is false, a sweep
\* it started was requested (client_data_ready is true), and running is true
\* for as long as that sweep is in progress: one sweep at a time.
C9_SingleOwner ==
    /\ spc = "await_data" => ~is_measurements_running
    /\ spc = "set_running" =>
           is_client_data_fully_sent /\ ~is_measurements_running
    /\ spc \in SweepStates => is_measurements_running

\* C9 witness: a second sweep is in progress after the first has ended.
C9_Witness ==
    /\ sweeps = 2
    /\ spc = "slp_publish_current"
    /\ is_measurements_running

\* C10: decoding a tick whose wire lists are empty or carry empty tokens
\* never raises: the empty tokens are dropped from both lists.
C10_EmptyTokensTolerated ==
    ~(/\ cpc = "raised"
      /\ client_exc = "ValueError"
      /\ \E i \in 1..Len(time_list) : time_list[i] = <<>>)

\* the states of __flush_measurement_parameters
FlushStates ==
    {"flush_ramp", "flush_sweep_time", "flush_sensor", "flush_ready",
     "flush_finished", "flush_abort"}

\* C11: the SLP driver handling a request with an empty voltage ramp raises
\* no division by zero (it sets finished with empty lists instead).
C11_EmptyRampFinishes ==
    ~(spc = "raised" /\ branch = "SLP" /\ server_exc = "ZeroDivisionError")

\* C12: a sweep with current filter SOS raises nothing in the driver: it goes
\* on to publish its samples and to set finished as an unfiltered sweep does.
C12_SosSweepFinishes ==
    ~(spc = "raised" /\ branch = "SLP" /\ slp_current_filter = "SOS")

\* C13: running is never true for a request whose sensor kind is none of
\* SLP, DLP, HEA: the request is rejected before a sweep starts.
C13_InvalidSensorNeverRuns ==
    ~(branch = "else" /\ is_measurements_running)

\* C14: every field has one writer side: a step of the driver (start_server
\* or stop_measurements) leaves the request fields and the abort flag as they
\* are, and a step of the client leaves running, finished and the two sample
\* lists as they are.
C14_SingleWriterPerField ==
    [][/\ (spc' # spc \/ apc' # apc) =>
              UNCHANGED <<voltage_ramp, voltage_sweep_time, current_filter,
                          sensor_to_use, is_client_data_fully_sent,
                          abort_measurements>>
       /\ cpc' # cpc =>
              UNCHANGED <<is_measurements_running, is_measurements_finished,
                          current_measurements, time_measurements>>]_vars

\* C15: when __flush_measurement_parameters returns, the nodes are back at
\* the values __initialize_server gave them: the abort flag it has just
\* written, the two signal flags, and the two sample lists, which are empty
\* for the first tick of the next sweep.  (The request fields may by then
\* hold the next request of a client.)
C15_FlushRestoresInitial ==
    [][(spc = "flush_abort" /\ spc' = "await_data") =>
          /\ ~abort_measurements'
          /\ ~is_measurements_running'
          /\ ~is_measurements_finished'
          /\ current_measurements' = <<>>
          /\ time_measurements' = <<>>]_vars

\* C16: the driver is in its flush of a finished sweep only when the client
\* has read finished = True since the driver set it for that sweep.
C16_FlushAfterAcknowledge ==
    (spc \in FlushStates /\ is_measurements_finished)
        => acked = finished_sets

\* C17: neither decoded list the client holds at a tick has more samples
\* than the ramp of the client's own request has voltages.
C17_SamplesWithinOwnRamp ==
    ClientExposesTick =>
        /\ Len(current_list) <= Len(selected_voltage_ramp)
        /\ Len(time_list) <= Len(selected_voltage_ramp)

\* C18: as long as the driver has never set finished, a client that has
\* submitted its request is not done and has not left its poll loop.
C18_NoTimeoutKeepsPolling ==
    (runs > 0 /\ finished_sets = 0 /\ ~ServerDown) =>
        /\ ~is_client_done
        /\ cpc # "raised"

\* C19: a calculate_all on a stream of fewer than 3 samples raises nothing
\* and leaves every field of the result as it was, for a linked and for an
\* unlinked object.
C19_ShortStreamNoOp ==
    [][(calculate_all /\ Len(calc_current') < 3) =>
          /\ calc_exc' = "none"
          /\ UNCHANGED calc_result]_vars

\* C20: a calculate_all that completes does not compute again a quantity
\* whose stored value is not zero: the plasma potential, the floating
\* potential and the density, once not zero, keep their value as the stream
\* grows.
C20_NonZeroNotRecomputed ==
    [][(calculate_all /\ calc_exc' = "none") =>
          /\ plasma_potential # 0 => plasma_potential' = plasma_potential
          /\ floating_potential # 0 =>
                 floating_potential' = floating_potential
          /\ density # 0 => density' = density]_vars

\* C21: a calculate_all that follows another one on the same stream of at
\* least 3 samples leaves every field of the result, and the outcome of the
\* call, as the first call left them.
C21_SecondCallChangesNothing ==
    [][(calculate_all /\ calc_calls > 0 /\ Len(calc_current) >= 3) =>
          /\ UNCHANGED calc_result
          /\ calc_exc' = calc_exc]_vars

\* C21, its case: two calls in a row have completed on a stream of at least
\* 3 samples and have found a finite temperature at a plasma potential that
\* is not the initial one.
C21_Witness ==
    /\ calc_calls >= 2
    /\ Len(calc_current) >= 3
    /\ calc_exc = "none"
    /\ temperature[1] = "finite"
    /\ plasma_potential # 0

\* C22: after a calculate_all that got past its guard, the floating
\* potential is the voltage at the last index of a negative current, and is
\* still the initial 0 if no current is negative.
C22_FloatingPotentialAtLastNegative ==
    (calc_calls > 0 /\ (calc_client \/ has_voltage_and_current_lists)) =>
        IF \E i \in DOMAIN calc_current : calc_current[i] < 0
        THEN \E i \in DOMAIN calc_current :
                 /\ calc_current[i] < 0
                 /\ \A j \in DOMAIN calc_current :
                        j > i => calc_current[j] >= 0
                 /\ floating_potential = calc_voltage[i]
        ELSE floating_potential = 0

\* C22, its case: two negative currents at voltages 0 and 1, then currents
\* that are not negative; the floating potential is 1.
C22_Witness ==
    /\ calc_calls > 0
    /\ Len(calc_current) >= 3
    /\ calc_voltage[1] = 0
    /\ calc_current[1] < 0
    /\ calc_current[2] < 0
    /\ \A j \in 3..Len(calc_current) : calc_current[j] >= 0
    /\ floating_potential = 1

\* C23: after a calculate_all on a stream without a negative current, the
\* floating potential, the temperature, the temperature in eV, the density,
\* the mean free path and the Debye length are all still the initial zero.
C23_NoNegativeKeepsSentinels ==
    (/\ calc_calls > 0
     /\ calc_client \/ has_voltage_and_current_lists
     /\ \A i \in DOMAIN calc_current : calc_current[i] >= 0) =>
        /\ floating_potential = 0
        /\ temperature = Zero
        /\ temperature_ev = Zero
        /\ density = 0
        /\ mean_free_path = Zero
        /\ debye_length = Zero

\* C24: after a calculate_all that has stored a plasma potential, the plasma
\* potential is the voltage at an index where the derivative of the current
\* over the voltage, taken over the prefixes of equal length, is largest;
\* dividing by the largest magnitude does not move that index.
C24_PlasmaPotentialAtMaxDerivative ==
    (calc_calls > 0 /\ calc_exc \in {"none", "ZeroDivisionError"}) =>
        LET d == Derivative(calc_voltage, calc_current)
        IN \E i \in DOMAIN d :
               /\ \A j \in DOMAIN d : d[j] <= d[i]
               /\ plasma_potential = calc_voltage[i]

\* C25: a calculate_all on a stream of at least 3 samples raises nothing.
C25_ThreeSamplesNeverRaise ==
    (calc_calls > 0 /\ Len(calc_current) >= 3) => calc_exc = "none"

\* C26: after a calculate_all that completes, the mean free path is the one
\* of impedance 18 if the gas label is exactly "air", and the one of
\* impedance 180 for any other label, "Air" included.
C26_ImpedanceByExactLabel ==
    (calc_calls > 0 /\ calc_exc = "none") =>
        mean_free_path =
            <<"finite", (IF calc_gas = "air" THEN 18 ELSE 180) * density,
              0, 0, 0>>

\* C26, its case: a completed calculate_all for the label "Air", whose mean
\* free path is the one of impedance 180.
C26_Witness ==
    /\ calc_calls > 0
    /\ calc_exc = "none"
    /\ calc_gas = "Air"
    /\ density # 0
    /\ mean_free_path[2] = 180 * density

\* C27: a finite temperature comes from a slope whose voltage difference is
\* the plasma potential minus the voltage at the middle index of the sample
\* list, the index of the midpoint current.
C27_MidpointsAtSameIndex ==
    (/\ calc_calls > 0
     /\ calc_exc \in {"none", "ZeroDivisionError"}
     /\ temperature[1] = "finite") =>
        temperature[2] =
            plasma_potential - calc_voltage[MiddleIndex(calc_current)]

\* C28: after a calculate_all that got as far as the temperatures, the
\* temperature in eV is 1.
C28_TemperatureEvIsOne ==
    (calc_calls > 0 /\ calc_exc \in {"none", "ZeroDivisionError"}) =>
        temperature_ev = <<"one", 0, 0, 0, 0>>

\* C28, its case: the temperatures have been computed on two streams that
\* differ, one giving a finite temperature and one not.
C28_Witness ==
    /\ calc_calls > 0
    /\ calc_exc \in {"none", "ZeroDivisionError"}
    /\ temperature[1] # "finite"
    /\ temperature_ev[1] = "one"
    /\ Len(calc_current) >= 3

\* C29: after a calculate_all that completes, the Larmor radius is -1 for
\* every magnetic-field label.
C29_LarmorRadiusIsMinusOne ==
    (calc_calls > 0 /\ calc_exc = "none") =>
        larmor_radius = <<"minus one", 0, 0, 0, 0>>

\* C29, its case: a completed calculate_all of an object whose client names
\* a magnetic field.
C29_Witness ==
    /\ calc_calls > 0
    /\ calc_exc = "none"
    /\ calc_magnetic_field = "Cusp"
    /\ larmor_radius[1] = "minus one"

\* C30: once the client is done with a sweep, the diagnostics task comes to
\* an end, whatever the number of samples of the sweep.
C30_FinishedSweepEndsTask ==
    is_client_done ~> (tpc \in {"done", "raised"})

\* C31: the csv file is empty as long as no save_to_csv has returned, and
\* then holds the header as its first row and nowhere else, and after it
\* one data row for each save_to_csv that has returned.
C31_OneHeaderThenOneRowPerSave ==
    IF csv_saves = 0 THEN Len(csv_file) = 0
    ELSE /\ Len(csv_file) = csv_saves + 1
         /\ csv_file[1][1] = "DateTime"
         /\ \A i \in 2..Len(csv_file) : csv_file[i][1] # "DateTime"

\* C31, its case: a second save_to_csv has appended to a file that was not
\* empty.
C31_Witness ==
    /\ csv_saves = 2
    /\ Len(csv_file) = 3
    /\ csv_file[2][8] # csv_file[3][8]

\* C32: the committed rows never hold the summary row of a sweep without
\* its detail row, nor the detail row without the summary row.
C32_SummaryAndDetailTogether ==
    \A id \in Stamps : SummaryRow(id) \in db_rows <=> DetailRow(id) \in db_rows

\* C33: a client becomes done only on a sweep the driver has started after
\* the client submitted its request, not on the finished flag and the lists
\* an earlier sweep has left.
C33_DoneOnOwnSweepOnly ==
    [][(cpc = "final_time" /\ is_client_done') =>
          sweeps > submitted.sweeps]_vars

\* C34: from the submission of a request until the driver starts its sweep,
\* no step of the driver changes the ready flag or a request field.
C34_DriverKeepsPendingRequest ==
    [][(submitted.sweeps = sweeps /\ Server) =>
          UNCHANGED <<is_client_data_fully_sent, voltage_ramp,
                      voltage_sweep_time, current_filter, sensor_to_use>>]_vars

\* C36: the abort flag is false whenever the driver starts a sweep, so that
\* an abort made during one sweep does not reach the next.
C36_NoAbortLeftForNextSweep ==
    [][(sweeps' = sweeps + 1) => ~abort_measurements]_vars

\* C37: the sensor kind, the ramp and the filter the driver reads for a
\* sweep are those of the last complete submission.
C37_DriverReadsOneSubmission ==
    [][/\ run_measurements_dispatch_SLP => sensor_to_use = submitted.sensor
       /\ run_SLP_read_ramp => voltage_ramp = RampStr(submitted.ramp)
       /\ run_SLP_read_filter => current_filter = submitted.filter]_vars

\* C35: whenever the client task is suspended in a run, its current_list
\* holds numbers, its time_list holds times, and the two are as long as each
\* other.
C35_ListsDecodedAtEverySuspension ==
    (cpc \notin {"idle", "raised"}) =>
        /\ \A i \in 1..Len(current_list) :
               ToString(current_list[i]) \in {ToString(n) : n \in Numbers}
        /\ \A i \in 1..Len(time_list) :
               ToString(time_list[i]) \in {ToString(n) : n \in 0..(MaxRuns + 1)}
        /\ Len(current_list) = Len(time_list)

\* C38: the divisor of step_time, which the driver computes from the ramp it
\* has read, is the number of voltages of that ramp.
C38_StepTimeDividesByRampLength ==
    [][(run_SLP_read_ramp /\ spc' = "slp_filter") =>
          number_of_measurements' = Len(Samples(voltage_ramp))]_vars

\* C39: each of the two entries of the factory returns the object of the
\* sensor kind for SLP, DLP and HEA, and raises ValueError for None and for
\* any other string.
C39_FactoryMakesMatchingKind ==
    (fac_call[1] # "none") =>
        fac_result = IF fac_call[2] \in {"SLP", "DLP", "HEA"}
                     THEN "Calculations" \o fac_call[2]
                     ELSE "ValueError"

\* C40: loading or appending through one instance leaves the list every
\* other instance shows as it was, for DataClient and for Measurement.
C40_ListsPerInstance ==
    [][\A i, j \in Instances :
          /\ (/\ i # j
              /\ dc_ref[j] # "none"
              /\ \E row \in Rows : load_measurements_csv(i, row))
             => ClientList(j)' = ClientList(j)
          /\ (/\ i # j
              /\ ms_ref[j] # "none"
              /\ \E row \in Rows : Measurement_append(i, row))
             => MeasurementList(j)' = MeasurementList(j)]_vars

====
